---- MODULE Spec2Model ----
(***************************************************************************)
(* Model of src/organize_dropbox.py: DropboxOrganizer.                     *)
(*                                                                         *)
(* Python strings are sequences of one-character strings, so substring,    *)
(* prefix, extension and path construction are computed, not assumed.      *)
(* The Dropbox backend is a set of existing folders plus the current path  *)
(* of every file; each backend call either succeeds or raises ApiError,    *)
(* the failure the source handles.                                         *)
(***************************************************************************)
EXTENDS Naturals, Integers, Sequences, FiniteSets, TLC

VARIABLES config, stats, pc, result, idx, cursor, dbxFolders, dbxFiles,
          calls, entry, delivered, processed, runs, faults, root, fn

vars == <<config, stats, pc, result, idx, cursor, dbxFolders, dbxFiles,
          calls, entry, delivered, processed, runs, faults, root, fn>>

\* ---------------------------------------------------------------- bounds
MaxEntries == 2      \* entries in the scanned folder
MaxPageLen == 2      \* entries per listing page
MaxRuns == 2         \* calls of scan_and_organize on one organizer
MaxFaults == 2       \* backend calls that raise ApiError, over the organizer's life
MaxNameLen == 4      \* length of the names given to the pure predicates
MaxYearLen == 6      \* length of the names given to _extract_year_from_filename

\* ------------------------------------------------------- string helpers
Upper == <<"A","B","C","D","E","F","G","H","I","J","K","L","M",
           "N","O","P","Q","R","S","T","U","V","W","X","Y","Z">>
Lowers == <<"a","b","c","d","e","f","g","h","i","j","k","l","m",
            "n","o","p","q","r","s","t","u","v","w","x","y","z">>
\* one character that is a decimal digit and not one of 0-9: ARABIC-INDIC
\* DIGIT THREE, written by its code point
ArabicIndicThree == "U+0663"

\* what \d matches in a str pattern: every Unicode decimal digit
Digits == {"0","1","2","3","4","5","6","7","8","9", ArabicIndicThree}

\* str.lower() on one character
LowerChar(c) ==
    IF \E k \in 1..26 : Upper[k] = c
    THEN Lowers[CHOOSE k \in 1..26 : Upper[k] = c]
    ELSE c

\* str.lower()
Lower(s) == [k \in 1..Len(s) |-> LowerChar(s[k])]

\* Python's  p in s  on strings
Contains(s, p) ==
    \E k \in 1..(Len(s) + 1) :
        k + Len(p) - 1 =< Len(s) /\ SubSeq(s, k, k + Len(p) - 1) = p

\* str.startswith
StartsWith(s, p) == Len(p) =< Len(s) /\ SubSeq(s, 1, Len(p)) = p

\* str.rfind of one character, 0 when absent
RFind(s, c) ==
    IF \E k \in 1..Len(s) : s[k] = c
    THEN CHOOSE k \in 1..Len(s) : s[k] = c /\ \A j \in (k+1)..Len(s) : s[j] # c
    ELSE 0

\* the loop of os.path.splitext over the characters before the last dot:
\* the extension counts only if one of them is not a dot
RECURSIVE SplitExtScan(_, _, _)
SplitExtScan(p, filenameIndex, dotIndex) ==
    IF filenameIndex < dotIndex
    THEN IF p[filenameIndex] # "."
         THEN SubSeq(p, dotIndex, Len(p))
         ELSE SplitExtScan(p, filenameIndex + 1, dotIndex)
    ELSE <<>>

\* os.path.splitext(p)[1]
SplitExt(p) ==
    LET sepIndex == RFind(p, "/")
        dotIndex == RFind(p, ".")
    IN  IF dotIndex > sepIndex
        THEN SplitExtScan(p, sepIndex + 1, dotIndex)
        ELSE <<>>

SlashStr == <<"/">>

\* ------------------------------------------------------- configuration
Categories == {"photos", "documents", "temp"}

DefaultPhotosFolder ==
    <<"P","h","o","t","o","s"," ","A","r","c","h","i","v","e">>
DefaultDocumentsFolder ==
    <<"D","o","c","u","m","e","n","t","s"," ","&"," ","F","i","l","e","s">>
DefaultTempFolder == <<"T","e","m","p"," ","F","i","l","e","s">>

\* dict.get with the temp default given for every category
FoldersGet_WrongDefault(cfg, key, default) ==
    IF key \in DOMAIN cfg.folders THEN cfg.folders[key] ELSE DefaultTempFolder

\* dict.get(key, default) on config['folders']
FoldersGet(cfg, key, default) ==
    IF key \in DOMAIN cfg.folders THEN cfg.folders[key] ELSE default

\* ------------------------------------------------------ pure predicates
\* the loop over skip_folders
RECURSIVE SkipFoldersLoop(_, _, _)
SkipFoldersLoop(skip_folders, k, file_path) ==
    IF k > Len(skip_folders) THEN FALSE
    ELSE IF Contains(file_path, skip_folders[k]) THEN TRUE
    ELSE SkipFoldersLoop(skip_folders, k + 1, file_path)

\* the loop over skip_files with the startswith test left out
RECURSIVE SkipFilesLoop_EqualOnly(_, _, _)
SkipFilesLoop_EqualOnly(skip_files, k, file_name) ==
    IF k > Len(skip_files) THEN FALSE
    ELSE IF file_name = skip_files[k] THEN TRUE
    ELSE SkipFilesLoop_EqualOnly(skip_files, k + 1, file_name)

\* the loop over skip_files
RECURSIVE SkipFilesLoop(_, _, _)
SkipFilesLoop(skip_files, k, file_name) ==
    IF k > Len(skip_files) THEN FALSE
    ELSE IF file_name = skip_files[k] \/ StartsWith(file_name, skip_files[k])
         THEN TRUE
    ELSE SkipFilesLoop(skip_files, k + 1, file_name)

ShouldSkip(cfg, file_path, file_name) ==
    IF SkipFoldersLoop(cfg.skip.folders, 1, file_path) THEN TRUE
    ELSE SkipFilesLoop(cfg.skip.files, 1, file_name)

\* the default year_pattern 20\d{2} matched at position k
YearPatternAt(s, k) ==
    /\ k + 3 =< Len(s)
    /\ s[k] = "2"
    /\ s[k + 1] = "0"
    /\ s[k + 2] \in Digits
    /\ s[k + 3] \in Digits

\* a search that returns the rightmost match
ReSearch_Last(s, k) ==
    IF \E j \in k..Len(s) : YearPatternAt(s, j)
    THEN LET last == CHOOSE j \in k..Len(s) :
                        /\ YearPatternAt(s, j)
                        /\ \A i \in (j + 1)..Len(s) : ~YearPatternAt(s, i)
         IN  SubSeq(s, last, last + 3)
    ELSE <<>>

\* re.search: the leftmost match, scanning from position k
RECURSIVE ReSearch(_, _)
ReSearch(s, k) ==
    IF k + 3 > Len(s) THEN <<>>
    ELSE IF YearPatternAt(s, k) THEN SubSeq(s, k, k + 3)
    ELSE ReSearch(s, k + 1)

\* None is the empty sequence: a match is never empty, and the caller only
\* tests the result for truth
None == <<>>

ExtractYearFromFilename(cfg, filename) ==
    IF ~cfg.rules.photos.enabled THEN None
    ELSE ReSearch(filename, 1)

\* x in list
InList(x, list) == \E k \in 1..Len(list) : list[k] = x

\* _is_document without the lower-casing of the name
IsDocument_CaseSensitive(cfg, filename) ==
    IF ~cfg.rules.documents.enabled THEN FALSE
    ELSE LET file_ext == SplitExt(filename)
         IN  InList(file_ext, cfg.rules.documents.extensions)

IsDocument(cfg, filename) ==
    IF ~cfg.rules.documents.enabled THEN FALSE
    ELSE LET file_ext == SplitExt(Lower(filename))
         IN  InList(file_ext, cfg.rules.documents.extensions)

\* the loop over patterns that looks at the first pattern only
TempPatternsLoop_FirstOnly(patterns, k, filename) ==
    IF k > Len(patterns) THEN FALSE
    ELSE Contains(filename, patterns[k])

\* the loop over patterns
RECURSIVE TempPatternsLoop(_, _, _)
TempPatternsLoop(patterns, k, filename) ==
    IF k > Len(patterns) THEN FALSE
    ELSE IF Contains(filename, patterns[k]) THEN TRUE
    ELSE TempPatternsLoop(patterns, k + 1, filename)

IsTempFile(cfg, filename) ==
    IF ~cfg.rules.temp.enabled THEN FALSE
    ELSE TempPatternsLoop(cfg.rules.temp.patterns, 1, filename)

\* ------------------------------------------------------- backend calls
\* m is the part of the state one call of _organize_file works on:
\* [stats, folders, files, calls].  An outcome o names what the backend
\* does with the calls of one step.
EnsureOutcomes == {"ok", "create_error", "check_error"}
MoveOutcomes == {"ok", "error"}

Call(op, path, to, res) == [op |-> op, path |-> path, to |-> to, res |-> res]

\* _ensure_folder_exists that creates the folder whatever the lookup says
EnsureFolderExists_AlwaysCreate(cfg, m, folder_path, o) ==
    IF cfg.dry_run THEN m
    ELSE [m EXCEPT
            !.calls = @ \o
               << Call("files_get_metadata", folder_path, <<>>,
                       IF folder_path \in m.folders THEN "ok" ELSE "not_found"),
                  Call("files_create_folder_v2", folder_path, <<>>, "ok") >>,
            !.folders = @ \cup {folder_path}]

EnsureFolderExists(cfg, m, folder_path, o) ==
    IF cfg.dry_run THEN m
    ELSE IF o = "check_error"
         THEN [m EXCEPT !.calls =
                  Append(@, Call("files_get_metadata", folder_path, <<>>, "error"))]
    ELSE IF folder_path \in m.folders
         THEN [m EXCEPT !.calls =
                  Append(@, Call("files_get_metadata", folder_path, <<>>, "ok"))]
    ELSE IF o = "ok"
         THEN [m EXCEPT
                 !.calls = @ \o
                    << Call("files_get_metadata", folder_path, <<>>, "not_found"),
                       Call("files_create_folder_v2", folder_path, <<>>, "ok") >>,
                 !.folders = @ \cup {folder_path}]
    ELSE [m EXCEPT
             !.calls = @ \o
                << Call("files_get_metadata", folder_path, <<>>, "not_found"),
                   Call("files_create_folder_v2", folder_path, <<>>, "error") >>]

\* _move_file without the dry_run test
MoveFile_NoDryRun(cfg, m, from_path, to_path, o) ==
    IF o = "ok"
    THEN [m |-> [m EXCEPT
                   !.calls = Append(@, Call("files_move_v2", from_path, to_path, "ok")),
                   !.files = [@ EXCEPT ![from_path] = to_path]],
          ret |-> TRUE]
    ELSE [m |-> [m EXCEPT
                   !.calls = Append(@, Call("files_move_v2", from_path, to_path, "error")),
                   !.stats.errors = @ + 1],
          ret |-> FALSE]

\* returns [m, ret]
MoveFile(cfg, m, from_path, to_path, o) ==
    IF cfg.dry_run THEN [m |-> m, ret |-> TRUE]
    ELSE IF o = "ok"
         THEN [m |-> [m EXCEPT
                        !.calls = Append(@, Call("files_move_v2", from_path, to_path, "ok")),
                        !.files = [@ EXCEPT ![from_path] = to_path]],
               ret |-> TRUE]
    ELSE [m |-> [m EXCEPT
                   !.calls = Append(@, Call("files_move_v2", from_path, to_path, "error")),
                   !.stats.errors = @ + 1],
          ret |-> FALSE]

\* ------------------------------------------------------- _organize_file
\* the photos stage that ensures the photos root only
PhotosStage_RootOnly(cfg, m, moved, file_path, file_name, o) ==
    LET year == ExtractYearFromFilename(cfg, file_name)
    IN  IF year # None /\ ~moved
        THEN LET photos_folder == FoldersGet(cfg, "photos", DefaultPhotosFolder)
                 year_folder == SlashStr \o photos_folder \o SlashStr \o year
                 m1 == EnsureFolderExists(cfg, m, SlashStr \o photos_folder, o.e1)
                 new_path == year_folder \o SlashStr \o file_name
                 r == MoveFile(cfg, m1, file_path, new_path, o.mv)
             IN  IF r.ret
                 THEN [m |-> [r.m EXCEPT !.stats.photos_moved = @ + 1],
                       moved |-> TRUE]
                 ELSE [m |-> r.m, moved |-> moved]
        ELSE [m |-> m, moved |-> moved]

\* the photos stage that leaves moved as it was after a successful move
PhotosStage_NotMarked(cfg, m, moved, file_path, file_name, o) ==
    LET year == ExtractYearFromFilename(cfg, file_name)
    IN  IF year # None /\ ~moved
        THEN LET photos_folder == FoldersGet(cfg, "photos", DefaultPhotosFolder)
                 year_folder == SlashStr \o photos_folder \o SlashStr \o year
                 m1 == EnsureFolderExists(cfg, m, SlashStr \o photos_folder, o.e1)
                 m2 == EnsureFolderExists(cfg, m1, year_folder, o.e2)
                 new_path == year_folder \o SlashStr \o file_name
                 r == MoveFile(cfg, m2, file_path, new_path, o.mv)
             IN  IF r.ret
                 THEN [m |-> [r.m EXCEPT !.stats.photos_moved = @ + 1],
                       moved |-> moved]
                 ELSE [m |-> r.m, moved |-> moved]
        ELSE [m |-> m, moved |-> moved]

\* the photos stage with the name lower-cased in the destination
PhotosStage_LowerName(cfg, m, moved, file_path, file_name, o) ==
    LET year == ExtractYearFromFilename(cfg, file_name)
    IN  IF year # None /\ ~moved
        THEN LET photos_folder == FoldersGet(cfg, "photos", DefaultPhotosFolder)
                 year_folder == SlashStr \o photos_folder \o SlashStr \o year
                 m1 == EnsureFolderExists(cfg, m, SlashStr \o photos_folder, o.e1)
                 m2 == EnsureFolderExists(cfg, m1, year_folder, o.e2)
                 new_path == year_folder \o SlashStr \o Lower(file_name)
                 r == MoveFile(cfg, m2, file_path, new_path, o.mv)
             IN  IF r.ret
                 THEN [m |-> [r.m EXCEPT !.stats.photos_moved = @ + 1],
                       moved |-> TRUE]
                 ELSE [m |-> r.m, moved |-> moved]
        ELSE [m |-> m, moved |-> moved]

\* each stage returns [m, moved]
PhotosStage(cfg, m, moved, file_path, file_name, o) ==
    LET year == ExtractYearFromFilename(cfg, file_name)
    IN  IF year # None /\ ~moved
        THEN LET photos_folder == FoldersGet(cfg, "photos", DefaultPhotosFolder)
                 year_folder == SlashStr \o photos_folder \o SlashStr \o year
                 m1 == EnsureFolderExists(cfg, m, SlashStr \o photos_folder, o.e1)
                 m2 == EnsureFolderExists(cfg, m1, year_folder, o.e2)
                 new_path == year_folder \o SlashStr \o file_name
                 r == MoveFile(cfg, m2, file_path, new_path, o.mv)
             IN  IF r.ret
                 THEN [m |-> [r.m EXCEPT !.stats.photos_moved = @ + 1],
                       moved |-> TRUE]
                 ELSE [m |-> r.m, moved |-> moved]
        ELSE [m |-> m, moved |-> moved]

DocumentsStage(cfg, m, moved, file_path, file_name, o) ==
    IF ~moved /\ IsDocument(cfg, file_name)
    THEN LET documents_folder == FoldersGet(cfg, "documents", DefaultDocumentsFolder)
             dest_folder == SlashStr \o documents_folder
             m1 == EnsureFolderExists(cfg, m, dest_folder, o.e1)
             new_path == dest_folder \o SlashStr \o file_name
             r == MoveFile(cfg, m1, file_path, new_path, o.mv)
         IN  IF r.ret
             THEN [m |-> [r.m EXCEPT !.stats.documents_moved = @ + 1],
                   moved |-> TRUE]
             ELSE [m |-> r.m, moved |-> moved]
    ELSE [m |-> m, moved |-> moved]

\* the temp stage without the _is_temp_file test
TempStage_NoCheck(cfg, m, moved, file_path, file_name, o) ==
    IF ~moved
    THEN LET temp_folder == FoldersGet(cfg, "temp", DefaultTempFolder)
             dest_folder == SlashStr \o temp_folder
             m1 == EnsureFolderExists(cfg, m, dest_folder, o.e1)
             new_path == dest_folder \o SlashStr \o file_name
             r == MoveFile(cfg, m1, file_path, new_path, o.mv)
         IN  IF r.ret
             THEN [m |-> [r.m EXCEPT !.stats.temp_moved = @ + 1],
                   moved |-> TRUE]
             ELSE [m |-> r.m, moved |-> moved]
    ELSE [m |-> m, moved |-> moved]

TempStage(cfg, m, moved, file_path, file_name, o) ==
    IF ~moved /\ IsTempFile(cfg, file_name)
    THEN LET temp_folder == FoldersGet(cfg, "temp", DefaultTempFolder)
             dest_folder == SlashStr \o temp_folder
             m1 == EnsureFolderExists(cfg, m, dest_folder, o.e1)
             new_path == dest_folder \o SlashStr \o file_name
             r == MoveFile(cfg, m1, file_path, new_path, o.mv)
         IN  IF r.ret
             THEN [m |-> [r.m EXCEPT !.stats.temp_moved = @ + 1],
                   moved |-> TRUE]
             ELSE [m |-> r.m, moved |-> moved]
    ELSE [m |-> m, moved |-> moved]

\* the whole of _organize_file on one FileMetadata; returns the new m
OrganizeFile(cfg, m, file_metadata, o1, o2, o3) ==
    LET file_path == file_metadata.path_display
        file_name == file_metadata.name
    IN  IF ShouldSkip(cfg, file_path, file_name)
        THEN [m EXCEPT !.stats.skipped = @ + 1]
        ELSE LET r1 == PhotosStage(cfg, m, FALSE, file_path, file_name, o1)
                 r2 == DocumentsStage(cfg, r1.m, r1.moved, file_path, file_name, o2)
                 r3 == TempStage(cfg, r2.m, r2.moved, file_path, file_name, o3)
             IN  r3.m

\* the calls of a log that raised ApiError for a failure (not_found is an
\* answer, not a failure)
Failures(log) == Cardinality({ k \in 1..Len(log) : log[k].res = "error" })

\* The outcomes worth drawing for one stage: none when the stage makes no
\* backend call, no create_error for a folder that exists, no failure once
\* budget failures have been drawn.
NoOutcome == [e1 |-> "ok", e2 |-> "ok", mv |-> "ok"]

EnsureOutcomesFor(m, folder_path, budget) ==
    IF Failures(m.calls) >= budget THEN {"ok"}
    ELSE IF folder_path \in m.folders THEN {"ok", "check_error"}
    ELSE EnsureOutcomes

MoveOutcomesFor(m, budget) ==
    IF Failures(m.calls) >= budget THEN {"ok"} ELSE MoveOutcomes

PhotosOutcomes(cfg, m, file_name, budget) ==
    LET year == ExtractYearFromFilename(cfg, file_name)
        photos_folder == SlashStr \o FoldersGet(cfg, "photos", DefaultPhotosFolder)
    IN  IF cfg.dry_run \/ year = None
        THEN {NoOutcome}
        ELSE [e1 : EnsureOutcomesFor(m, photos_folder, budget),
              e2 : EnsureOutcomesFor(m, photos_folder \o SlashStr \o year, budget),
              mv : MoveOutcomesFor(m, budget)]

DocumentsOutcomes(cfg, r, file_name, budget) ==
    IF cfg.dry_run \/ r.moved \/ ~IsDocument(cfg, file_name)
    THEN {NoOutcome}
    ELSE [e1 : EnsureOutcomesFor(r.m,
                 SlashStr \o FoldersGet(cfg, "documents", DefaultDocumentsFolder), budget),
          e2 : {"ok"},
          mv : MoveOutcomesFor(r.m, budget)]

TempOutcomes(cfg, r, file_name, budget) ==
    IF cfg.dry_run \/ r.moved \/ ~IsTempFile(cfg, file_name)
    THEN {NoOutcome}
    ELSE [e1 : EnsureOutcomesFor(r.m,
                 SlashStr \o FoldersGet(cfg, "temp", DefaultTempFolder), budget),
          e2 : {"ok"},
          mv : MoveOutcomesFor(r.m, budget)]

\* ------------------------------------------------ inputs of the model
FileEntry(name) == [tag |-> "file", name |-> name, path_display |-> SlashStr \o name]
FolderEntry(name) == [tag |-> "folder", name |-> name, path_display |-> SlashStr \o name]
NoEntry == [tag |-> "none", name |-> <<>>, path_display |-> <<>>]

\* names that match one, several or none of the rules of ModelRules
Catalog ==
    { FileEntry(<<"t","m","2","0","2","3",".","P">>),  \* year, extension, temp pattern
      FileEntry(<<"x","t","m">>),                      \* temp pattern
      FileEntry(<<"z",".","q">>),                      \* nothing
      FileEntry(<<".","d","2","0","2","0",".","p">>),  \* skip file prefix, year, extension
      FileEntry(<<"S","2","0","2","1","t","m">>),      \* skip folder substring, year, temp
      FolderEntry(<<"P">>) }

Injective(seq) == \A a, b \in 1..Len(seq) : seq[a] = seq[b] => a = b

\* a folder holds each path once
Roots ==
    { seq \in UNION { [1..n -> Catalog] : n \in 0..MaxEntries } : Injective(seq) }

\* an entry for every category
FullFolders ==
    [c \in Categories |-> CASE c = "photos" -> <<"P">>
                            [] c = "documents" -> <<"D">>
                            [] c = "temp" -> <<"T">>]

\* no entry for photos and temp
PartialFolders == [c \in {"documents"} |-> <<"D">>]

ModelRules(pe, de, te) ==
    [photos |-> [enabled |-> pe],
     documents |-> [enabled |-> de, extensions |-> << <<".","p">>, <<".","Q">> >>],
     temp |-> [enabled |-> te, patterns |-> << <<"t","m">>, <<".","t">> >>]]

ModelSkip == [folders |-> << <<"S">> >>, files |-> << <<".","d">> >>]

\* every rule enabled, or one of them disabled
EnabledFlags ==
    { <<TRUE, TRUE, TRUE>>, <<FALSE, TRUE, TRUE>>, <<TRUE, FALSE, TRUE>>,
      <<TRUE, TRUE, FALSE>> }

Config(d, f, en) ==
    [dry_run |-> d, folders |-> f, rules |-> ModelRules(en[1], en[2], en[3]),
     skip |-> ModelSkip]

Configs ==
    { Config(d, FullFolders, en) : d \in BOOLEAN, en \in EnabledFlags }
      \cup { Config(d, PartialFolders, <<TRUE, TRUE, TRUE>>) : d \in BOOLEAN }

ZeroStats ==
    [photos_moved |-> 0, documents_moved |-> 0, temp_moved |-> 0,
     errors |-> 0, skipped |-> 0]

EmptyResult == [entries |-> <<>>, has_more |-> FALSE]
NoCall == [name |-> "none", path |-> <<>>, arg |-> <<>>, ret |-> FALSE, year |-> <<>>]

\* ------------------------------------------------------------ the state
\* __init__: the configuration is loaded, the counters are zero, nothing runs
Init ==
    /\ config \in Configs
    /\ root \in Roots
    /\ stats = ZeroStats
    /\ pc = "idle"
    /\ result = EmptyResult
    /\ idx = 1
    /\ cursor = <<>>
    /\ dbxFolders = { root[k].path_display : k \in { j \in 1..Len(root) : root[j].tag = "folder" } }
    /\ dbxFiles = [ p \in { root[k].path_display :
                              k \in { j \in 1..Len(root) : root[j].tag = "file" } } |-> p ]
    /\ calls = <<>>
    /\ entry = NoEntry
    /\ delivered = <<>>
    /\ processed = <<>>
    /\ runs = 0
    /\ faults = 0
    /\ fn = NoCall

\* ------------------------------------------------------------- listing
StillThere(e) ==
    IF e.tag = "folder" THEN TRUE ELSE dbxFiles[e.path_display] = e.path_display

InRoot(path) == \E k \in 1..Len(root) : root[k].path_display = path

\* the destination roots that were created in the scanned folder
CreatedRoot(name) ==
    IF (SlashStr \o name) \in dbxFolders /\ ~InRoot(SlashStr \o name)
    THEN << FolderEntry(name) >> ELSE <<>>

\* what the backend lists now: what is still in the folder, then the
\* folders created since
Listing ==
    LET p == FoldersGet(config, "photos", DefaultPhotosFolder)
        d == FoldersGet(config, "documents", DefaultDocumentsFolder)
        t == FoldersGet(config, "temp", DefaultTempFolder)
    IN  SelectSeq(root, StillThere)
          \o CreatedRoot(p)
          \o (IF d # p THEN CreatedRoot(d) ELSE <<>>)
          \o (IF t # p /\ t # d THEN CreatedRoot(t) ELSE <<>>)

Min(a, b) == IF a < b THEN a ELSE b

\* a page that never says there is more
Page_NoMore(rest, n) ==
    [entries |-> SubSeq(rest, 1, Min(n, Len(rest))),
     has_more |-> FALSE]

\* a page of at most n entries taken from the front of rest
Page(rest, n) ==
    [entries |-> SubSeq(rest, 1, Min(n, Len(rest))),
     has_more |-> Len(rest) > n]

Rest(rest, n) == SubSeq(rest, Min(n, Len(rest)) + 1, Len(rest))

\* a listing call answers (TRUE) or, while failures remain to be drawn, raises
ListOutcomes == IF faults < MaxFaults THEN BOOLEAN ELSE {TRUE}

\* ------------------------------------------------------------- actions
\* scan_and_organize is called: files_list_folder answers with the first
\* page, or raises ApiError and the process exits
ScanAndOrganize ==
    /\ pc = "idle"
    /\ runs < MaxRuns
    /\ runs' = runs + 1
    /\ processed' = <<>>
    /\ \E ok \in ListOutcomes, n \in 1..MaxPageLen :
         IF ok
         THEN /\ result' = Page(Listing, n)
              /\ cursor' = Rest(Listing, n)
              /\ delivered' = Page(Listing, n).entries
              /\ idx' = 1
              /\ pc' = "for"
              /\ faults' = faults
         ELSE /\ pc' = "exit"
              /\ delivered' = <<>>
              /\ faults' = faults + 1
              /\ UNCHANGED <<result, cursor, idx>>
    /\ UNCHANGED <<config, root, stats, dbxFolders, dbxFiles, calls, entry, fn>>

\* one iteration of  for entry in result.entries  on a FileMetadata
OrganizeEntry ==
    /\ pc = "for"
    /\ idx =< Len(result.entries)
    /\ result.entries[idx].tag = "file"
    /\ LET e == result.entries[idx]
           m0 == [stats |-> stats, folders |-> dbxFolders, files |-> dbxFiles,
                  calls |-> <<>>]
           left == MaxFaults - faults
           \* a skipped file reaches no stage: no outcome is drawn for it
           skip == ShouldSkip(config, e.path_display, e.name)
       IN  \E o1 \in PhotosOutcomes(config, m0, e.name, left) :
           \E r1 \in {PhotosStage(config, m0, skip, e.path_display, e.name, o1)} :
           \E o2 \in DocumentsOutcomes(config, r1, e.name, left) :
           \E r2 \in {DocumentsStage(config, r1.m, r1.moved, e.path_display, e.name, o2)} :
           \E o3 \in TempOutcomes(config, r2, e.name, left) :
           \E m \in {OrganizeFile(config, m0, e, o1, o2, o3)} :
                    /\ faults + Failures(m.calls) =< MaxFaults
                    /\ faults' = faults + Failures(m.calls)
                    /\ stats' = m.stats
                    /\ dbxFolders' = m.folders
                    /\ dbxFiles' = m.files
                    /\ calls' = m.calls
                    /\ entry' = e
                    /\ processed' = Append(processed, e)
    /\ idx' = idx + 1
    /\ UNCHANGED <<config, root, pc, result, cursor, delivered, runs, fn>>

\* one iteration on an entry that is not a FileMetadata
SkipFolderEntry ==
    /\ pc = "for"
    /\ idx =< Len(result.entries)
    /\ result.entries[idx].tag # "file"
    /\ idx' = idx + 1
    /\ UNCHANGED <<config, root, stats, pc, result, cursor, dbxFolders, dbxFiles,
                   calls, entry, delivered, processed, runs, faults, fn>>

\* while result.has_more: files_list_folder_continue
ListFolderContinue ==
    /\ pc = "for"
    /\ idx > Len(result.entries)
    /\ result.has_more
    /\ \E ok \in ListOutcomes, n \in 1..MaxPageLen :
         IF ok
         THEN /\ result' = Page(cursor, n)
              /\ cursor' = Rest(cursor, n)
              /\ delivered' = delivered \o Page(cursor, n).entries
              /\ idx' = 1
              /\ pc' = "for"
              /\ faults' = faults
         ELSE /\ pc' = "exit"
              /\ faults' = faults + 1
              /\ UNCHANGED <<result, cursor, idx, delivered>>
    /\ UNCHANGED <<config, root, stats, dbxFolders, dbxFiles, calls, entry,
                   processed, runs, fn>>

\* the last page is done: scan_and_organize returns
Return ==
    /\ pc = "for"
    /\ idx > Len(result.entries)
    /\ ~result.has_more
    /\ pc' = "idle"
    /\ UNCHANGED <<config, root, stats, result, idx, cursor, dbxFolders, dbxFiles,
                   calls, entry, delivered, processed, runs, faults, fn>>

RunStep == OrganizeEntry \/ SkipFolderEntry \/ ListFolderContinue \/ Return

Next == ScanAndOrganize \/ OrganizeEntry \/ SkipFolderEntry \/ ListFolderContinue \/ Return

Spec == Init /\ [][Next]_vars

\* the one thread of control runs on until scan_and_organize returns or exits
FairSpec == Spec /\ WF_vars(RunStep)

\* ------------------------------------------- the methods on their own
\* The unit tests call the methods of a fresh organizer directly.  FnSpec
\* does the same on every name of a bounded set; fn records the last call.
StringsUpTo(alphabet, n) == UNION { [1..k -> alphabet] : k \in 0..n }

\* dots, a letter of a configured extension in both cases, other letters
DocumentNames == StringsUpTo({".", "p", "P", "a", "Q"}, MaxNameLen)

\* the characters of a year, a digit that does not start one, a decimal digit
\* that is not 0-9, a letter
YearNames == StringsUpTo({"2", "0", "1", ArabicIndicThree, "x"}, MaxYearLen)

\* the characters of the patterns of ModelRules and a letter of none of them
TempNames == StringsUpTo({"t", "m", ".", "a"}, MaxNameLen)

ExtensionLists ==
    { << <<".","p">>, <<".","Q">> >>,
      << <<>>, <<".","p">> >>,
      << >> }

\* the patterns of ModelRules, no pattern, a pattern of one character after
\* one that is longer than the names
PatternLists ==
    { << <<"t","m">>, <<".","t">> >>,
      << >>,
      << <<"a","a","a","a","a","a","a">>, <<"a">> >> }

BaseConfig == Config(FALSE, FullFolders, <<TRUE, TRUE, TRUE>>)

DocumentFnConfigs ==
    { [BaseConfig EXCEPT !.rules.documents = [enabled |-> de, extensions |-> exts]] :
        de \in BOOLEAN, exts \in ExtensionLists }

YearFnConfigs ==
    { [BaseConfig EXCEPT !.rules.photos = [enabled |-> pe]] : pe \in BOOLEAN }

TempFnConfigs ==
    { [BaseConfig EXCEPT !.rules.temp = [enabled |-> te, patterns |-> pats]] :
        te \in BOOLEAN, pats \in PatternLists }

\* folder roots that start with a slash, end with one, hold one, are empty
SlashedFolders ==
    [c \in Categories |-> CASE c = "photos" -> <<"/","P">>
                            [] c = "documents" -> <<"D","/">>
                            [] c = "temp" -> <<>>]

NestedFolders ==
    [c \in Categories |-> CASE c = "photos" -> <<"A","/","P">>
                            [] c = "documents" -> <<"A","/","D">>
                            [] c = "temp" -> <<"A"," ","T">>]

FolderFnConfigs ==
    { [BaseConfig EXCEPT !.folders = f] :
        f \in {FullFolders, PartialFolders, SlashedFolders, NestedFolders} }

FnConfigs == DocumentFnConfigs \cup YearFnConfigs \cup TempFnConfigs \cup FolderFnConfigs

\* the names worth giving to a method under a configuration: those made for
\* the rule the configuration varies
CatalogNames == { e.name : e \in { c \in Catalog : c.tag = "file" } }

OrganizeNames(cfg) ==
    (IF cfg \in YearFnConfigs THEN YearNames ELSE {})
      \cup (IF cfg \in TempFnConfigs THEN TempNames ELSE {})
      \cup (IF cfg \in FolderFnConfigs THEN CatalogNames ELSE {})

FnInit ==
    /\ config \in FnConfigs
    /\ root = <<>>
    /\ stats = ZeroStats
    /\ pc = "idle"
    /\ result = EmptyResult
    /\ idx = 1
    /\ cursor = <<>>
    /\ dbxFolders = {}
    /\ dbxFiles = << >>
    /\ calls = <<>>
    /\ entry = NoEntry
    /\ delivered = <<>>
    /\ processed = <<>>
    /\ runs = 0
    /\ faults = 0
    /\ fn = NoCall

\* organizer._is_document(filename), called once on the fresh organizer
CallIsDocument ==
    /\ fn.name = "none"
    /\ config \in DocumentFnConfigs
    /\ \E filename \in DocumentNames :
          fn' = [name |-> "_is_document", path |-> <<>>, arg |-> filename,
                 ret |-> IsDocument(config, filename), year |-> <<>>]
    /\ UNCHANGED <<config, root, stats, pc, result, idx, cursor, dbxFolders,
                   dbxFiles, calls, entry, delivered, processed, runs, faults>>

\* organizer._extract_year_from_filename(filename)
CallExtractYear ==
    /\ fn.name = "none"
    /\ config \in YearFnConfigs
    /\ \E filename \in YearNames :
          fn' = [name |-> "_extract_year_from_filename", path |-> <<>>,
                 arg |-> filename, ret |-> FALSE,
                 year |-> ExtractYearFromFilename(config, filename)]
    /\ UNCHANGED <<config, root, stats, pc, result, idx, cursor, dbxFolders,
                   dbxFiles, calls, entry, delivered, processed, runs, faults>>

\* organizer._is_temp_file(filename)
CallIsTempFile ==
    /\ fn.name = "none"
    /\ config \in TempFnConfigs
    /\ \E filename \in TempNames :
          fn' = [name |-> "_is_temp_file", path |-> <<>>, arg |-> filename,
                 ret |-> IsTempFile(config, filename), year |-> <<>>]
    /\ UNCHANGED <<config, root, stats, pc, result, idx, cursor, dbxFolders,
                   dbxFiles, calls, entry, delivered, processed, runs, faults>>

\* organizer._organize_file(file_metadata) on a file of the scanned folder,
\* the backend holding that file and no folder, every backend call succeeding
CallOrganizeFile ==
    /\ fn.name = "none"
    /\ \E name \in OrganizeNames(config) :
          LET e == FileEntry(name)
              m0 == [stats |-> stats, folders |-> dbxFolders,
                     files |-> [p \in {e.path_display} |-> p], calls |-> <<>>]
              m == OrganizeFile(config, m0, e, NoOutcome, NoOutcome, NoOutcome)
          IN  /\ stats' = m.stats
              /\ dbxFolders' = m.folders
              /\ dbxFiles' = m.files
              /\ calls' = m.calls
              /\ entry' = e
              /\ processed' = Append(processed, e)
              /\ fn' = [name |-> "_organize_file", path |-> e.path_display,
                        arg |-> name, ret |-> FALSE, year |-> <<>>]
    /\ UNCHANGED <<config, root, pc, result, idx, cursor, delivered, runs, faults>>

FnNext == CallIsDocument \/ CallExtractYear \/ CallIsTempFile \/ CallOrganizeFile

FnSpec == FnInit /\ [][FnNext]_vars

\* ----------------------------------------- the predicates between the runs
\* a classification whose skip test answers once only
Classification_SkipsOnce(cfg, file_path, file_name) ==
    [skip |-> ShouldSkip(cfg, file_path, file_name) /\ stats.skipped = 0,
     year |-> ExtractYearFromFilename(cfg, file_name),
     document |-> IsDocument(cfg, file_name),
     temp |-> IsTempFile(cfg, file_name)]

\* what the four predicates say of one entry
Classification(cfg, file_path, file_name) ==
    [skip |-> ShouldSkip(cfg, file_path, file_name),
     year |-> ExtractYearFromFilename(cfg, file_name),
     document |-> IsDocument(cfg, file_name),
     temp |-> IsTempFile(cfg, file_name)]

\* a dry and a real organizer with every rule enabled
ClassifyConfigs == { Config(d, FullFolders, <<TRUE, TRUE, TRUE>>) : d \in BOOLEAN }

ClassifyInit == Init /\ config \in ClassifyConfigs

RootFiles == { root[k] : k \in { j \in 1..Len(root) : root[j].tag = "file" } }

\* The four predicates are called on an entry of the folder while
\* scan_and_organize is not running (there is one thread): on the fresh
\* organizer, as the unit tests do, and later again on the entry of the last
\* call.  fn keeps the result and whether the call came after a run.
CallClassification ==
    /\ pc = "idle"
    /\ \E e \in RootFiles :
          /\ runs = 0 \/ (fn.name = "classification" /\ fn.path = e.path_display)
          /\ fn' = [name |-> "classification", path |-> e.path_display,
                    arg |-> e.name,
                    ret |-> Classification(config, e.path_display, e.name),
                    year |-> <<>>,
                    again |-> runs > 0]
    /\ UNCHANGED <<config, root, stats, pc, result, idx, cursor, dbxFolders,
                   dbxFiles, calls, entry, delivered, processed, runs, faults>>

ClassifyNext == Next \/ CallClassification

ClassifySpec == ClassifyInit /\ [][ClassifyNext]_vars

\* ============================================================ claims
\* What the claims speak of, stated on the observable state: entry is the
\* file the last call of _organize_file worked on, calls the backend calls
\* that call issued.

\* a step of the run that is one call of _organize_file
OrganizeStep == processed' = Append(processed, entry')

MoveCalls == { k \in 1..Len(calls) : calls[k].op = "files_move_v2" }

EnsureCalls ==
    { k \in 1..Len(calls) :
        calls[k].op \in {"files_get_metadata", "files_create_folder_v2"} }

\* the skip rule as section 4.1 states it
ClaimSkip(cfg, file_path, file_name) ==
    \/ \E k \in 1..Len(cfg.skip.folders) : Contains(file_path, cfg.skip.folders[k])
    \/ \E k \in 1..Len(cfg.skip.files) :
          file_name = cfg.skip.files[k] \/ StartsWith(file_name, cfg.skip.files[k])

\* the decision of section 4.1: the first category that matches
Route(cfg, e) ==
    IF ClaimSkip(cfg, e.path_display, e.name) THEN "skip"
    ELSE IF ExtractYearFromFilename(cfg, e.name) # None THEN "photos"
    ELSE IF IsDocument(cfg, e.name) THEN "documents"
    ELSE IF IsTempFile(cfg, e.name) THEN "temp"
    ELSE "no_match"

\* the destination root of a category: the configured one, else the default
\* written in _organize_file
ClaimRoot(cfg, c) ==
    IF c \in DOMAIN cfg.folders THEN cfg.folders[c]
    ELSE CASE c = "photos" -> DefaultPhotosFolder
           [] c = "documents" -> DefaultDocumentsFolder
           [] c = "temp" -> DefaultTempFolder

\* the destination path of e in category c
ClaimDestination(cfg, c, e) ==
    IF c = "photos"
    THEN SlashStr \o ClaimRoot(cfg, c) \o SlashStr
           \o ExtractYearFromFilename(cfg, e.name) \o SlashStr \o e.name
    ELSE SlashStr \o ClaimRoot(cfg, c) \o SlashStr \o e.name

\* C1: every move issued for a file goes to the destination of the
\* highest-priority category the file matches (skip > photos > documents >
\* temp), never to a lower-priority one.
C1_RoutedToHighestPriority ==
    \A k \in MoveCalls :
        /\ Route(config, entry) \in Categories
        /\ calls[k].to = ClaimDestination(config, Route(config, entry), entry)

\* C2: at most one move call is issued for a file in one run, whatever the
\* backend answers: after a failed move no other category is tried.
C2_AtMostOneMovePerFile == Cardinality(MoveCalls) =< 1

\* an ensure-folder that failed: the check raised an error other than
\* not-found, or the creation raised
EnsureFailedAt(k) ==
    /\ k \in EnsureCalls
    /\ calls[k].res = "error"

\* C3: when ensuring a destination folder fails, the move into that folder
\* is not issued.
C3_NoMoveAfterFailedEnsure ==
    \A k \in 1..Len(calls) :
        EnsureFailedAt(k) =>
            ~\E j \in MoveCalls :
                j > k /\ StartsWith(calls[j].to, calls[k].path \o SlashStr)

\* the counters after one more file of the category
Counted(st, c) ==
    CASE c = "photos" -> [st EXCEPT !.photos_moved = @ + 1]
      [] c = "documents" -> [st EXCEPT !.documents_moved = @ + 1]
      [] c = "temp" -> [st EXCEPT !.temp_moved = @ + 1]
      [] c = "skip" -> [st EXCEPT !.skipped = @ + 1]
      [] OTHER -> st

\* what _organize_file leaves of the counters in a real run where every
\* backend call succeeds
SuccessfulRealRun(e) ==
    OrganizeFile([config EXCEPT !.dry_run = FALSE],
                 [stats |-> stats, folders |-> dbxFolders, files |-> dbxFiles,
                  calls |-> <<>>],
                 e, NoOutcome, NoOutcome, NoOutcome).stats

\* C4: in a dry run no metadata, create or move call is issued and the backend
\* is left as it is, errors stays 0, and each file is counted as its category
\* exactly as a real run with every call succeeding counts it.
C4_DryRunIssuesNoCall ==
    [][ config.dry_run =>
          /\ calls' = <<>>
          /\ dbxFolders' = dbxFolders
          /\ dbxFiles' = dbxFiles
          /\ stats'.errors = 0
          /\ OrganizeStep =>
                /\ stats' = Counted(stats, Route(config, entry'))
                /\ stats' = SuccessfulRealRun(entry') ]_vars

\* a dry run has counted a file for each of two categories
C4_Witness ==
    /\ config.dry_run
    /\ pc = "idle"
    /\ stats.photos_moved >= 1
    /\ stats.temp_moved >= 1
    /\ Len(processed) = 2

\* C5: a file is skipped exactly when its path contains a skip.folders string
\* or its name equals or starts with a skip.files string; a skipped file adds
\* one to skipped and nothing else: no backend call, no other counter, even
\* when its name also matches the photo, document or temp rule.
C5_SkipCountsAndTouchesNothing ==
    [][ OrganizeStep =>
          LET skip == ClaimSkip(config, entry'.path_display, entry'.name)
          IN  /\ skip <=> (stats'.skipped = stats.skipped + 1)
              /\ ~skip => stats'.skipped = stats.skipped
              /\ skip => /\ stats' = [stats EXCEPT !.skipped = @ + 1]
                         /\ calls' = <<>>
                         /\ dbxFolders' = dbxFolders
                         /\ dbxFiles' = dbxFiles ]_vars

\* a real run with every rule enabled has skipped a file whose name has a year
C5_Witness ==
    /\ ~config.dry_run
    /\ entry.tag = "file"
    /\ ClaimSkip(config, entry.path_display, entry.name)
    /\ ExtractYearFromFilename(config, entry.name) # None
    /\ IsDocument(config, entry.name) \/ IsTempFile(config, entry.name)
    /\ stats.skipped >= 1
    /\ dbxFiles[entry.path_display] = entry.path_display

\* C6: a file that matches no skip rule and none of the photo, document and
\* temp rules causes no backend call and leaves every counter unchanged.
C6_NoMatchTouchesNothing ==
    [][ (OrganizeStep /\ Route(config, entry') = "no_match") =>
          /\ stats' = stats
          /\ calls' = <<>>
          /\ dbxFolders' = dbxFolders
          /\ dbxFiles' = dbxFiles ]_vars

\* a real run with every rule enabled has worked on a file that matches nothing
C6_Witness ==
    /\ ~config.dry_run
    /\ config.rules.photos.enabled
    /\ config.rules.documents.enabled
    /\ config.rules.temp.enabled
    /\ entry.tag = "file"
    /\ Route(config, entry) = "no_match"
    /\ processed # <<>>
    /\ stats = ZeroStats

\* C7: whenever scan_and_organize starts, every counter is 0: here, when the
\* first page has been listed and no entry of it has been looked at.
C7_CountersZeroAtRunStart ==
    (pc = "for" /\ idx = 1 /\ processed = <<>> /\ delivered = result.entries)
        => stats = ZeroStats

\* an enabled category has no entry in the folders mapping
MissingEnabledFolder(cfg) ==
    \/ cfg.rules.photos.enabled /\ "photos" \notin DOMAIN cfg.folders
    \/ cfg.rules.documents.enabled /\ "documents" \notin DOMAIN cfg.folders
    \/ cfg.rules.temp.enabled /\ "temp" \notin DOMAIN cfg.folders

\* C8 as stated: with an enabled category missing from the folders mapping
\* the run aborts before any file is listed, and no backend call is issued.
C8_MissingFolderAborts ==
    MissingEnabledFolder(config) =>
        /\ pc # "for"
        /\ delivered = <<>>
        /\ processed = <<>>
        /\ calls = <<>>

\* the categories whose rule the name matches
Matching(cfg, e) ==
    { c \in Categories :
        CASE c = "photos" -> ExtractYearFromFilename(cfg, e.name) # None
          [] c = "documents" -> IsDocument(cfg, e.name)
          [] c = "temp" -> IsTempFile(cfg, e.name) }

\* the folders _organize_file ensures for category c
ClaimEnsured(cfg, c, e) ==
    IF c = "photos"
    THEN { SlashStr \o ClaimRoot(cfg, c),
           SlashStr \o ClaimRoot(cfg, c) \o SlashStr
              \o ExtractYearFromFilename(cfg, e.name) }
    ELSE { SlashStr \o ClaimRoot(cfg, c) }

\* C8 amended: with an enabled category missing from the folders mapping the
\* run goes on, and every ensure-folder and move call for a file of that
\* category uses the default root written in the code.
C8_MissingFolderUsesDefault ==
    MissingEnabledFolder(config) =>
        /\ \A k \in MoveCalls :
              \E c \in Matching(config, entry) :
                  calls[k].to = ClaimDestination(config, c, entry)
        /\ \A k \in EnsureCalls :
              \E c \in Matching(config, entry) :
                  calls[k].path \in ClaimEnsured(config, c, entry)

\* a file was moved under the default photos root, the mapping having no
\* entry for photos
C8_Witness ==
    /\ "photos" \notin DOMAIN config.folders
    /\ config.rules.photos.enabled
    /\ \E k \in MoveCalls :
          /\ calls[k].res = "ok"
          /\ StartsWith(calls[k].to, SlashStr \o DefaultPhotosFolder \o SlashStr)
    /\ stats.photos_moved >= 1
    /\ (SlashStr \o DefaultPhotosFolder) \in dbxFolders

IsFile(e) == e.tag = "file"

\* the entries of this run's pages the loop has gone past
Passed == SubSeq(delivered, 1, Len(delivered) - Len(result.entries) + idx - 1)

DotsOf(name) == { k \in 1..Len(name) : name[k] = "." }

LastDot(name) == CHOOSE k \in DotsOf(name) : \A j \in DotsOf(name) : j =< k

\* the extension as the claim defines it: from the last dot to the end, empty
\* when the name has no dot
ClaimExtension(name) ==
    IF DotsOf(name) = {} THEN <<>>
    ELSE SubSeq(name, LastDot(name), Len(name))

\* C10 as stated: _is_document is true exactly when the documents rule is
\* enabled and the lower-cased extension, from the last dot to the end of the
\* name, is one of documents.extensions.
C10_DocumentByLastDotExtension ==
    fn.name = "_is_document" =>
        (fn.ret <=>
            /\ config.rules.documents.enabled
            /\ InList(ClaimExtension(Lower(fn.arg)), config.rules.documents.extensions))

\* the extension is empty as well when only dots come before the last dot
AmendedExtension(name) ==
    IF DotsOf(name) = {} THEN <<>>
    ELSE IF \A k \in 1..(LastDot(name) - 1) : name[k] = "." THEN <<>>
    ELSE SubSeq(name, LastDot(name), Len(name))

UpperChar(c) ==
    IF \E k \in 1..26 : Lowers[k] = c
    THEN Upper[CHOOSE k \in 1..26 : Lowers[k] = c]
    ELSE c

\* the name in other letter cases: all lower, all upper, one letter switched
CaseVariants(name) ==
    { Lower(name), [k \in 1..Len(name) |-> UpperChar(name[k])] }
      \cup { [name EXCEPT ![k] = IF LowerChar(@) = @ THEN UpperChar(@) ELSE LowerChar(@)] :
               k \in 1..Len(name) }

\* C10 amended: _is_document is true exactly when the documents rule is
\* enabled and the lower-cased extension is one of documents.extensions, the
\* extension being the part from the last dot to the end, and empty when the
\* name has no dot or has nothing but dots before its last dot; the same name
\* in another letter case gives the same result.
C10_DocumentByExtension ==
    fn.name = "_is_document" =>
        /\ fn.ret <=>
              /\ config.rules.documents.enabled
              /\ InList(AmendedExtension(Lower(fn.arg)),
                        config.rules.documents.extensions)
        /\ \A other \in CaseVariants(fn.arg) : IsDocument(config, other) = fn.ret

\* a name that starts with a dot and ends in an upper-case extension was
\* found to be a document
C10_Witness ==
    /\ fn.name = "_is_document"
    /\ fn.ret
    /\ Len(fn.arg) >= 3
    /\ fn.arg[1] = "."
    /\ SubSeq(fn.arg, Len(fn.arg) - 1, Len(fn.arg)) = <<".", "P">>
    /\ ~InList(<<>>, config.rules.documents.extensions)

\* a digit, as the pattern's \d takes it
ClaimDigit(c) == c \in Digits

\* the positions where "20" followed by two digits starts
ClaimYearStarts(name) ==
    { k \in 1..(Len(name) - 3) :
        /\ name[k] = "2"
        /\ name[k + 1] = "0"
        /\ ClaimDigit(name[k + 2])
        /\ ClaimDigit(name[k + 3]) }

\* the leftmost such substring, None when there is none
ClaimYear(name) ==
    IF ClaimYearStarts(name) = {} THEN None
    ELSE LET first == CHOOSE k \in ClaimYearStarts(name) :
                         \A j \in ClaimYearStarts(name) : k =< j
         IN  SubSeq(name, first, first + 3)

SuccessfulMoves == { k \in MoveCalls : calls[k].res = "ok" }

\* C11: with the photos rule enabled and the default pattern,
\* _extract_year_from_filename returns the leftmost substring made of "20" and
\* two digits, and None when the name has none; that year names the photos
\* subfolder the file is moved to, and a name without one is not moved under
\* the photos root.
C11_YearIsLeftmostMatch ==
    config.rules.photos.enabled =>
        /\ fn.name = "_extract_year_from_filename" => fn.year = ClaimYear(fn.arg)
        /\ (fn.name = "_organize_file" /\ ~ClaimSkip(config, fn.path, fn.arg)) =>
              IF ClaimYear(fn.arg) # None
              THEN /\ Cardinality(MoveCalls) = 1
                   /\ \A k \in MoveCalls :
                         calls[k].to = SlashStr \o ClaimRoot(config, "photos") \o SlashStr
                                         \o ClaimYear(fn.arg) \o SlashStr \o fn.arg
                   /\ (SlashStr \o ClaimRoot(config, "photos") \o SlashStr
                          \o ClaimYear(fn.arg)) \in dbxFolders
                   /\ stats.photos_moved = 1
              ELSE /\ stats.photos_moved = 0
                   /\ \A k \in 1..Len(calls) :
                         ~StartsWith(calls[k].path, SlashStr \o ClaimRoot(config, "photos"))
                   /\ \A k \in MoveCalls :
                         ~StartsWith(calls[k].to,
                                     SlashStr \o ClaimRoot(config, "photos") \o SlashStr)

\* a file whose name holds two different years was moved to the folder of the
\* first
C11_Witness ==
    /\ fn.name = "_organize_file"
    /\ config.rules.photos.enabled
    /\ \E a, b \in ClaimYearStarts(fn.arg) :
          /\ a < b
          /\ SubSeq(fn.arg, a, a + 3) # SubSeq(fn.arg, b, b + 3)
          /\ ClaimYear(fn.arg) = SubSeq(fn.arg, a, a + 3)
    /\ dbxFiles[fn.path] = SlashStr \o ClaimRoot(config, "photos") \o SlashStr
                              \o ClaimYear(fn.arg) \o SlashStr \o fn.arg

\* p occurs in s as a substring
ClaimOccursIn(p, s) ==
    \E i \in 0..Len(s) : \E j \in i..Len(s) : SubSeq(s, i + 1, j) = p

\* the temp rule as the claim states it
ClaimTemp(cfg, name) ==
    /\ cfg.rules.temp.enabled
    /\ \E k \in 1..Len(cfg.rules.temp.patterns) :
          ClaimOccursIn(cfg.rules.temp.patterns[k], name)

\* C12: _is_temp_file is true exactly when the temp rule is enabled and some
\* string of temp.patterns occurs in the name as a substring; a file that
\* matches a temp pattern and no skip, photo or document rule is moved to the
\* temp folder and counted as temp.
C12_TempBySubstring ==
    /\ fn.name = "_is_temp_file" => (fn.ret <=> ClaimTemp(config, fn.arg))
    /\ ( /\ fn.name = "_organize_file"
         /\ ClaimTemp(config, fn.arg)
         /\ ~ClaimSkip(config, fn.path, fn.arg)
         /\ ExtractYearFromFilename(config, fn.arg) = None
         /\ ~IsDocument(config, fn.arg) ) =>
            /\ Cardinality(MoveCalls) = 1
            /\ \A k \in MoveCalls :
                  calls[k].to = SlashStr \o ClaimRoot(config, "temp") \o SlashStr \o fn.arg
            /\ dbxFiles[fn.path] = SlashStr \o ClaimRoot(config, "temp") \o SlashStr \o fn.arg
            /\ stats = [ZeroStats EXCEPT !.temp_moved = 1]

\* a file was moved to the temp folder for a pattern that is not the first of
\* the list and that its name holds in the middle, not at its start
C12_Witness ==
    /\ fn.name = "_organize_file"
    /\ Len(config.rules.temp.patterns) = 2
    /\ ~ClaimOccursIn(config.rules.temp.patterns[1], fn.arg)
    /\ ClaimOccursIn(config.rules.temp.patterns[2], fn.arg)
    /\ ~StartsWith(fn.arg, config.rules.temp.patterns[2])
    /\ stats.temp_moved = 1
    /\ dbxFiles[fn.path] # fn.path

\* C13 as stated: the destination passed to the move call is the folder root,
\* a slash, for photos the year and a slash, and the file name:
\* {folders.photos}/{year}/{name}, {folders.documents}/{name},
\* {folders.temp}/{name}.
C13_DestinationIsRootThenName ==
    fn.name = "_organize_file" =>
        \A k \in MoveCalls :
            LET c == Route(config, entry)
            IN  /\ c \in Categories
                /\ calls[k].to =
                      IF c = "photos"
                      THEN ClaimRoot(config, c) \o SlashStr
                             \o ClaimYear(entry.name) \o SlashStr \o entry.name
                      ELSE ClaimRoot(config, c) \o SlashStr \o entry.name

\* C13 amended: the destination passed to the move call is a slash, the folder
\* root exactly as configured (the default of the code when the mapping has no
\* entry), a slash, for photos the year and a slash, and the unchanged file
\* name; the slash in front is added whatever the root starts with.
C13_DestinationIsSlashRootThenName ==
    fn.name = "_organize_file" =>
        \A k \in MoveCalls :
            LET c == Route(config, entry)
            IN  /\ c \in Categories
                /\ calls[k].path = entry.path_display
                /\ calls[k].to =
                      IF c = "photos"
                      THEN SlashStr \o ClaimRoot(config, c) \o SlashStr
                             \o ClaimYear(entry.name) \o SlashStr \o entry.name
                      ELSE SlashStr \o ClaimRoot(config, c) \o SlashStr
                             \o entry.name

\* a file with an upper-case letter in its name was moved under a photos root
\* that itself starts with a slash
C13_Witness ==
    /\ fn.name = "_organize_file"
    /\ "photos" \in DOMAIN config.folders
    /\ StartsWith(config.folders["photos"], SlashStr)
    /\ Lower(fn.arg) # fn.arg
    /\ \E k \in SuccessfulMoves :
          StartsWith(calls[k].to, SlashStr \o SlashStr)
    /\ stats.photos_moved = 1

\* the folder that directly contains a path
ClaimParent(path) == SubSeq(path, 1, RFind(path, "/") - 1)

\* an ensure-folder call for a folder: its metadata lookup
EnsureCallFor(k, folder_path) ==
    /\ calls[k].op = "files_get_metadata"
    /\ calls[k].path = folder_path

\* C14: in a run that is not a dry run, every move call of a file comes after
\* an ensure-folder call, made for the same file, for the folder that directly
\* contains the destination, and for photos after one for the photos root and
\* then one for the year folder; the calls made for an entry are all made
\* before the next entry of the page is taken.
C14_EnsureBeforeMove ==
    /\ [](~config.dry_run =>
            \A k \in MoveCalls :
                /\ calls[k].path = entry.path_display
                /\ \E j \in 1..(k - 1) :
                      /\ EnsureCallFor(j, ClaimParent(calls[k].to))
                      /\ \A i \in j..(k - 1) : i \notin MoveCalls
                      /\ (ExtractYearFromFilename(config, entry.name) # None
                            /\ calls[k].to = ClaimDestination(config, "photos", entry))
                          => \E i \in 1..(j - 1) :
                                /\ EnsureCallFor(i, SlashStr \o ClaimRoot(config, "photos"))
                                /\ ClaimParent(ClaimParent(calls[k].to))
                                     = SlashStr \o ClaimRoot(config, "photos")
                                /\ \A h \in i..(k - 1) : h \notin MoveCalls)
    /\ [][OrganizeStep =>
            /\ entry' = result.entries[idx]
            /\ idx' = idx + 1
            /\ result' = result
            /\ \A k \in 1..Len(calls') :
                  calls'[k].op = "files_move_v2" => calls'[k].path = entry'.path_display]_vars

\* a file was moved to its year folder after both folders had been looked up
\* and created
C14_Witness ==
    /\ ~config.dry_run
    /\ Len(calls) = 5
    /\ calls[5].op = "files_move_v2"
    /\ calls[5].res = "ok"
    /\ calls[5].to = ClaimDestination(config, "photos", entry)
    /\ calls[2].op = "files_create_folder_v2"
    /\ calls[4].op = "files_create_folder_v2"

\* the four counters that count entries
Sum4(st) == st.photos_moved + st.documents_moved + st.temp_moved + st.skipped

SuccessfulMovesOf(log) ==
    { k \in 1..Len(log) : log[k].op = "files_move_v2" /\ log[k].res = "ok" }

\* C16: whatever the backend answers, an entry increases at most one of
\* photos_moved, documents_moved, temp_moved and skipped, by one; their sum
\* never exceeds the number of file entries processed; no counter decreases;
\* no file is moved successfully more than once.
C16_CountersCountEntries ==
    /\ [][ /\ stats'.photos_moved >= stats.photos_moved
           /\ stats'.documents_moved >= stats.documents_moved
           /\ stats'.temp_moved >= stats.temp_moved
           /\ stats'.skipped >= stats.skipped
           /\ stats'.errors >= stats.errors
           /\ OrganizeStep =>
                 /\ Sum4(stats') - Sum4(stats) \in {0, 1}
                 /\ Cardinality(SuccessfulMovesOf(calls')) =< 1
                 /\ SuccessfulMovesOf(calls') # {} =>
                       dbxFiles[entry'.path_display] = entry'.path_display
           /\ ~OrganizeStep => Sum4(stats') = Sum4(stats)
           /\ \A p \in DOMAIN dbxFiles :
                 dbxFiles[p] # p => dbxFiles'[p] = dbxFiles[p] ]_vars
    /\ [](runs =< 1 => Sum4(stats) =< Len(processed))

\* a file took two move calls, the first failed and the second succeeded, and
\* it was counted once
C16_Witness ==
    /\ runs = 1
    /\ Len(processed) = 2
    /\ Cardinality(MoveCalls) = 2
    /\ Cardinality(SuccessfulMoves) = 1
    /\ stats.errors = 1
    /\ Sum4(stats) = 2

\* the folders created by the first k calls of a log
CreatedBy(log, k) ==
    { log[j].path : j \in { i \in 1..k : /\ log[i].op = "files_create_folder_v2"
                                          /\ log[i].res = "ok" } }

ClaimClassification(cfg, file_path, file_name) ==
    [skip |-> ClaimSkip(cfg, file_path, file_name),
     year |-> IF cfg.rules.photos.enabled THEN ClaimYear(file_name) ELSE None,
     document |-> /\ cfg.rules.documents.enabled
                  /\ InList(AmendedExtension(Lower(file_name)),
                            cfg.rules.documents.extensions),
     temp |-> ClaimTemp(cfg, file_name)]

====
